---- MODULE Spec2Model ----
(***************************************************************************)
(* Model of the Vidu API client core (src/vidu_client.py and               *)
(* src/error_codes.py): request dispatch (_make_request), the submission   *)
(* operations with their local parameter validation, the task handle       *)
(* (ViduTask) with refresh / wait_for_completion / cancel, and the remote  *)
(* service as an opaque environment that advances each task's state.       *)
(***************************************************************************)
EXTENDS Integers, Naturals, Sequences, FiniteSets, TLC

VARIABLES srv, tasks, calls, call

vars == <<srv, tasks, calls, call>>

(***************************************************************************)
(* Bounds of the model.                                                    *)
(***************************************************************************)
MaxTimeout == 2
MaxInterval == 2
MaxPollDur == 2
MaxImages == 8

Handles == {1, 2}
TaskIds == {"t1", "t2"}

(***************************************************************************)
(* Task status strings (ViduTaskStatus) and the views the server reports.  *)
(***************************************************************************)
CREATED == "created"
QUEUEING == "queueing"
PROCESSING == "processing"
SUCCESS == "success"
FAILED == "failed"

ViduTaskStatus == {CREATED, QUEUEING, PROCESSING, SUCCESS, FAILED}

\* a state string the server may report that the enumeration does not list
UnknownState == "scheduling"

\* Optional values: <<>> is None, <<v>> is the value v.
None == <<>>
Some(v) == <<v>>

\* The decoded JSON body of a response.  error_code is None when the field
\* is absent, and so is creations; a present creations field is Some(list).
TaskBody(id, state, err, cr) ==
    [error_code |-> None, id |-> id, state |-> state, err_code |-> err,
     creations |-> cr]

ErrorBody(code) ==
    [error_code |-> Some(code), id |-> "", state |-> "", err_code |-> "",
     creations |-> <<>>]

\* A URL is the sequence of its pieces: the characters ".", "?" and "/"
\* each stand alone, the text between them is one piece.
UrlVideo == <<"https:", "/", "/", "cdn", ".", "example", ".", "com", "/", "v",
              "/", "c1", ".", "mp4", "?", "sig=a", ".", "b">>
UrlCover == <<"https:", "/", "/", "cdn", ".", "example", ".", "com", "/", "v",
              "/", "c1", ".", "jpg">>
UrlNoExt == <<"https:", "/", "/", "cdn", ".", "example", ".", "com", "/", "v",
              "/", "c2">>
UrlDottedDir == <<"https:", "/", "/", "cdn", ".", "example", ".", "com", "/",
                  "v1", ".", "2", "/", "c3", "?", "x=1">>
UrlNoDots == <<"http:", "/", "/", "localhost", "/", "v", "/", "c4">>

\* One entry of creations; each of its fields may be absent.
Creation(id, url, cover_url) == [id |-> id, url |-> url, cover_url |-> cover_url]

Creation1 == Creation(Some("c1"), Some(UrlVideo), Some(UrlCover))
Creation2 == Creation(Some("c2"), Some(UrlNoExt), None)

CreationChoices == { <<Creation1>>, <<Creation1, Creation2>> }

(***************************************************************************)
(* The remote service: one state per task, advancing                       *)
(* created -> queueing -> processing -> success | failed.  It may also     *)
(* report a state string the client does not know.                         *)
(***************************************************************************)
ServerInit == [t \in TaskIds |-> TaskBody(t, CREATED, "", <<>>)]

ServerSuccessors(v) ==
    CASE v.state = CREATED    -> { [v EXCEPT !.state = QUEUEING],
                                   [v EXCEPT !.state = UnknownState] }
      [] v.state = QUEUEING   -> { [v EXCEPT !.state = PROCESSING] }
      [] v.state = UnknownState -> { [v EXCEPT !.state = PROCESSING] }
      [] v.state = PROCESSING ->
            { [v EXCEPT !.state = SUCCESS, !.creations = Some(cr)] : cr \in CreationChoices }
            \cup { [v EXCEPT !.state = FAILED, !.err_code = "TaskFailed"] }
      [] OTHER -> {}

ServerAdvance(t) ==
    /\ \E v \in ServerSuccessors(srv[t]) : srv' = [srv EXCEPT ![t] = v]
    /\ UNCHANGED <<tasks, calls, call>>

(***************************************************************************)
(* ViduErrorHandler.handle_api_response: raises iff the body has an        *)
(* error_code field different from "0".                                    *)
(***************************************************************************)
HandleApiResponseRaisesOnField(body) == body.error_code # None

HandleApiResponseRaises(body) ==
    /\ body.error_code # None
    /\ body.error_code[1] # "0"

(***************************************************************************)
(* ViduClient._make_request.  A wire outcome is what the network hands     *)
(* back: conn_fail (session.get/post raises), http_error                   *)
(* (raise_for_status raises), bad_json (response.json raises) or json (a   *)
(* decoded body).  MakeRequestRaises is the set of exception kinds the     *)
(* call can end with, "none" meaning that it returns the body.             *)
(* response.json() raises requests' JSONDecodeError, which is a            *)
(* RequestException in requests >= 2.27 and only a ValueError before.      *)
(***************************************************************************)
ConnFail == [kind |-> "conn_fail", body |-> ErrorBody("")]
HttpError == [kind |-> "http_error", body |-> ErrorBody("")]
\* a non-2xx response whose body carries an error code
HttpErrorCoded(code) == [kind |-> "http_error", body |-> ErrorBody(code)]
BadJson == [kind |-> "bad_json", body |-> ErrorBody("")]
Json(body) == [kind |-> "json", body |-> body]

MakeRequestRaises(wire) ==
    CASE wire.kind = "conn_fail"  -> {"RequestException"}
      [] wire.kind = "http_error" -> {"RequestException"}
      [] wire.kind = "bad_json"   -> {"RequestException", "ValueError"}
      [] OTHER -> IF HandleApiResponseRaises(wire.body)
                  THEN {"ViduError"} ELSE {"none"}

RetryableCodesWithConflicts ==
    {"500001", "500", "500002", "500003", "500004", "429", "429001", "409003"}

\* ViduErrorHandler.is_retryable_error
RetryableCodes == {"500001", "500", "500002", "500003", "500004", "429", "429001"}
IsRetryableError(error_code) == error_code \in RetryableCodes

MakeRequestAttemptsRetrying(wire) ==
    IF wire.kind = "json" /\ HandleApiResponseRaises(wire.body)
       /\ IsRetryableError(wire.body.error_code[1])
    THEN 2 ELSE 1

\* number of HTTP requests one _make_request call sends: the try block
\* sends once and every except clause re-raises
MakeRequestAttempts(wire) == 1

\* the error code carried by the raised ViduError
RaisedCode(wire, exc) ==
    IF exc = "ViduError" THEN wire.body.error_code[1] ELSE ""

\* the error_code field of the body that came with the response, "" when
\* no response came, it was not JSON, or it has no such field
WireCode(wire) ==
    IF wire.kind \in {"json", "http_error"} /\ wire.body.error_code # None
    THEN wire.body.error_code[1] ELSE ""

(***************************************************************************)
(* Requests of the task operations.                                        *)
(***************************************************************************)
QueryRequest(task_id) ==
    [method |-> "GET", path |-> <<"/ent/v2/tasks/", task_id, "/creations">>]

CancelRequest(task_id) ==
    [method |-> "POST", path |-> <<"/ent/v2/task/", task_id, "/cancel">>]

StatusErrCodes == {"404001", "429001"}
CancelErrCodes == {"409001", "500001"}

\* the ways a request can fail: in transport, or with an error-coded body
TransportFailures == {ConnFail, HttpError, BadJson}
StatusFailures ==
    TransportFailures \cup { Json(ErrorBody(c)) : c \in StatusErrCodes }
                      \cup { HttpErrorCoded(c) : c \in StatusErrCodes }
CancelFailures ==
    TransportFailures \cup { Json(ErrorBody(c)) : c \in CancelErrCodes }
                      \cup { HttpErrorCoded(c) : c \in CancelErrCodes }

\* what the network can hand back to a status query of task t: the
\* server's view of the task, or one of the failures Fs
StatusWires(t, Fs) == {Json(srv[t])} \cup (Fs \cap StatusFailures)

\* what the network can hand back to a cancel request
CancelWires(t, Fs) == {Json(TaskBody(t, "", "", <<>>))} \cup (Fs \cap CancelFailures)

(***************************************************************************)
(* ViduTask: the handle.  tasks[h] holds the fields of the object,         *)
(* calls[h] the call in progress (or the last finished call) on it.        *)
(***************************************************************************)
IdleCall ==
    [op |-> "none", pc |-> "idle", exc |-> "none", code |-> "",
     timeout |-> 0, check_interval |-> 0, elapsed |-> 0,
     polls |-> 0, sleeps |-> 0, slept |-> 0, lastDur |-> 0,
     wire |-> "none", wcode |-> "", resp |-> None, reqs |-> {}, nreq |-> 0]

NoCall == [op |-> "none", args |-> "", exc |-> "none", code |-> "",
           reqs |-> {}, nreq |-> 0]

\* ViduTask.__init__
NewTask(task_id) == [task_id |-> task_id, task_info |-> None]

Free(h) == calls[h].pc \in {"idle", "done"}

StoreInfoShared(ts, h, info) ==
    [g \in DOMAIN ts |-> [ts[g] EXCEPT !.task_info = info]]

\* self._task_info = <info> : an attribute of this object only
StoreInfo(ts, h, info) == [ts EXCEPT ![h].task_info = info]

RefreshViewKeepsCached(old, body) == IF old = None THEN Some(body) ELSE old

\* ViduTask.refresh: the new view is the response itself
RefreshView(old, body) == Some(body)

Refresh(h, Fs) ==
    /\ Free(h)
    /\ \E wire \in StatusWires(tasks[h].task_id, Fs) :
       \E exc \in MakeRequestRaises(wire) :
          /\ calls' = [calls EXCEPT ![h] =
                [IdleCall EXCEPT !.op = "refresh", !.pc = "done", !.exc = exc,
                                 !.code = RaisedCode(wire, exc),
                                 !.wire = wire.kind,
                                 !.wcode = WireCode(wire),
                                 !.resp = IF exc = "none" THEN Some(wire.body) ELSE None,
                                 !.reqs = {QueryRequest(tasks[h].task_id)},
                                 !.nreq = MakeRequestAttempts(wire)]]
          /\ tasks' = IF exc = "none"
                      THEN StoreInfo(tasks, h, RefreshView(tasks[h].task_info, wire.body))
                      ELSE tasks
    /\ UNCHANGED <<srv, call>>

\* ViduTask.cancel -> ViduClient.cancel_task.  An accepted cancellation is
\* best effort: the remote task may stop (failed) or keep running.
CancelEffects(t, exc) ==
    IF exc = "none" /\ srv[t].state \notin {SUCCESS, FAILED}
    THEN {srv, [srv EXCEPT ![t].state = FAILED, ![t].err_code = "Cancelled"]}
    ELSE {srv}

CancelViewMarksFailed(old) ==
    IF old = None THEN old ELSE Some([old[1] EXCEPT !.state = FAILED])

\* the view the handle caches after cancel: cancel does not touch it
CancelView(old) == old

Cancel(h, Fs) ==
    /\ Free(h)
    /\ \E wire \in CancelWires(tasks[h].task_id, Fs) :
       \E exc \in MakeRequestRaises(wire) :
          /\ calls' = [calls EXCEPT ![h] =
                [IdleCall EXCEPT !.op = "cancel", !.pc = "done", !.exc = exc,
                                 !.code = RaisedCode(wire, exc),
                                 !.wire = wire.kind,
                                 !.wcode = WireCode(wire),
                                 !.reqs = {CancelRequest(tasks[h].task_id)},
                                 !.nreq = MakeRequestAttempts(wire)]]
          /\ tasks' = StoreInfo(tasks, h, CancelView(tasks[h].task_info))
          /\ srv' \in CancelEffects(tasks[h].task_id, exc)
    /\ UNCHANGED call

(***************************************************************************)
(* ViduClient.wait_for_completion, called through                          *)
(* ViduTask.wait_for_completion.  One loop iteration is three steps:       *)
(* the timeout test, the poll, the sleep.  elapsed is time.time() minus    *)
(* start_time; a poll takes d >= 1 time units, a sleep check_interval.     *)
(***************************************************************************)
IsTerminalOnlySuccess(status) == status = SUCCESS

IsTerminalNotInFlight(status) == status \notin {CREATED, QUEUEING, PROCESSING}

\* status in [ViduTaskStatus.SUCCESS, ViduTaskStatus.FAILED]
IsTerminal(status) == status \in {SUCCESS, FAILED}

TimedOutAtEqual(elapsed, timeout) == elapsed >= timeout

TimedOutWithGrace(elapsed, timeout) == elapsed > timeout + 1

\* time.time() - start_time > timeout
TimedOut(elapsed, timeout) == elapsed > timeout

TimeoutRequestsCancel(task_id) == {CancelRequest(task_id)}

\* requests wait sends when it gives up: none
TimeoutRequests(task_id) == {}

\* time.sleep(check_interval)
SleepTime(check_interval) == check_interval

WaitStart(h, timeout, check_interval) ==
    /\ Free(h)
    /\ calls' = [calls EXCEPT ![h] =
          [IdleCall EXCEPT !.op = "wait", !.pc = "check",
                           !.timeout = timeout,
                           !.check_interval = check_interval]]
    /\ UNCHANGED <<srv, tasks, call>>

WaitCheck(h) ==
    /\ calls[h].op = "wait"
    /\ calls[h].pc = "check"
    /\ IF TimedOut(calls[h].elapsed, calls[h].timeout)
       THEN calls' = [calls EXCEPT ![h].pc = "done",
                                   ![h].exc = "TimeoutError",
                                   ![h].reqs = @ \cup TimeoutRequests(tasks[h].task_id),
                                   ![h].nreq = @ + Cardinality(TimeoutRequests(tasks[h].task_id))]
       ELSE calls' = [calls EXCEPT ![h].pc = "poll"]
    /\ UNCHANGED <<srv, tasks, call>>

AfterPollRetrying(exc, body) ==
    IF exc = "ViduError" /\ body.error_code = Some("429001") THEN "sleep"
    ELSE IF exc # "none" THEN "raise"
    ELSE IF IsTerminal(body.state) THEN "return"
    ELSE "sleep"

\* what follows a poll inside the loop: the exception propagates, a
\* terminal view is returned, anything else sleeps
AfterPoll(exc, body) ==
    IF exc # "none" THEN "raise"
    ELSE IF IsTerminal(body.state) THEN "return"
    ELSE "sleep"

WaitPoll(h, d, Fs) ==
    /\ calls[h].op = "wait"
    /\ calls[h].pc = "poll"
    /\ \E wire \in StatusWires(tasks[h].task_id, Fs) :
       \E exc \in MakeRequestRaises(wire) :
         LET nxt == AfterPoll(exc, wire.body)
             c1 == [calls[h] EXCEPT !.elapsed = @ + d, !.lastDur = d,
                                    !.polls = @ + 1,
                                    !.nreq = @ + MakeRequestAttempts(wire),
                                    !.reqs = @ \cup {QueryRequest(tasks[h].task_id)},
                                    !.wire = wire.kind,
                                    !.wcode = WireCode(wire),
                                    !.resp = IF exc = "none" THEN Some(wire.body) ELSE None]
         IN /\ calls' = [calls EXCEPT ![h] =
                  CASE nxt = "raise"  -> [c1 EXCEPT !.pc = "done", !.exc = exc,
                                                    !.code = RaisedCode(wire, exc)]
                    [] nxt = "return" -> [c1 EXCEPT !.pc = "done"]
                    [] OTHER          -> [c1 EXCEPT !.pc = "sleep"]]
            \* ViduTask.wait_for_completion stores what the client call returns
            /\ tasks' = IF nxt = "return"
                        THEN StoreInfo(tasks, h, Some(wire.body))
                        ELSE tasks
    /\ UNCHANGED <<srv, call>>

WaitSleep(h) ==
    /\ calls[h].op = "wait"
    /\ calls[h].pc = "sleep"
    /\ calls' = [calls EXCEPT ![h].pc = "check",
                              ![h].elapsed = @ + SleepTime(calls[h].check_interval),
                              ![h].slept = @ + SleepTime(calls[h].check_interval),
                              ![h].sleeps = @ + 1]
    /\ UNCHANGED <<srv, tasks, call>>

(***************************************************************************)
(* Specifications of the task handles.                                     *)
(***************************************************************************)
Timeouts == -1 .. MaxTimeout
Intervals == 0 .. MaxInterval
PollDurs == 1 .. MaxPollDur
AllFailures == StatusFailures \cup CancelFailures

Init ==
    /\ srv = ServerInit
    /\ tasks = [h \in Handles |-> NewTask(IF h = 1 THEN "t1" ELSE "t2")]
    /\ calls = [h \in Handles |-> IdleCall]
    /\ call = NoCall

\* the steps of the call site that owns handle h
HandleNext(h, Ts, Is, Ds, Fs) ==
    \/ Refresh(h, Fs)
    \/ Cancel(h, Fs)
    \/ \E t \in Ts, i \in Is : WaitStart(h, t, i)
    \/ WaitCheck(h)
    \/ \E d \in Ds : WaitPoll(h, d, Fs)
    \/ WaitSleep(h)

\* one call site drives handle 1; the service advances its task
Next ==
    \/ HandleNext(1, Timeouts, Intervals, PollDurs, AllFailures)
    \/ ServerAdvance("t1")

Spec == Init /\ [][Next]_vars

\* a running wait keeps running: the thread executing the loop is scheduled,
\* and every poll and every sleep takes a finite time
WaitStep(h) ==
    WaitCheck(h) \/ (\E d \in PollDurs : WaitPoll(h, d, AllFailures)) \/ WaitSleep(h)

LiveSpec == Spec /\ WF_vars(WaitStep(1))

\* two call sites, each owning one handle, interleaved in any order; the
\* second handle is for the same task or for another one
PairTimeouts == {1}
PairIntervals == {1}
PairPollDurs == {1}
PairFailures == {ConnFail}

InitPair ==
    /\ srv = ServerInit
    /\ \E t \in TaskIds : tasks = [h \in Handles |-> NewTask(IF h = 1 THEN "t1" ELSE t)]
    /\ calls = [h \in Handles |-> IdleCall]
    /\ call = NoCall

NextPair ==
    \/ \E h \in Handles : HandleNext(h, PairTimeouts, PairIntervals, PairPollDurs, PairFailures)
    \/ \E t \in TaskIds : ServerAdvance(t)

SpecPair == InitPair /\ [][NextPair]_vars

(***************************************************************************)
(* The submission operations of ViduClient.  Strings are modelled by       *)
(* their lengths: Str(len, stripped) is a string of len characters of      *)
(* which stripped remain after strip().  A Check operator is the           *)
(* parameter validation of one operation, in the order of the code: it     *)
(* yields the exception raised ("none" when validation passes) and the     *)
(* duration placed in the request.                                         *)
(***************************************************************************)
VIDUQ1 == "viduq1"
VIDUQ1_CLASSIC == "viduq1-classic"
VIDU2_0 == "vidu2.0"
VIDU1_5 == "vidu1.5"

ViduModel == {VIDUQ1, VIDUQ1_CLASSIC, VIDU2_0, VIDU1_5}

MODEL_DURATION_LIMITS ==
    (VIDUQ1 :> {5}) @@ (VIDUQ1_CLASSIC :> {5}) @@ (VIDU2_0 :> {4, 8}) @@ (VIDU1_5 :> {4, 8})

REFERENCE_MODEL_DURATION_LIMITS ==
    (VIDUQ1 :> {5}) @@ (VIDUQ1_CLASSIC :> {5}) @@ (VIDU2_0 :> {4}) @@ (VIDU1_5 :> {4, 8})

START_END_MODEL_DURATION_LIMITS ==
    (VIDUQ1 :> {5}) @@ (VIDUQ1_CLASSIC :> {5}) @@ (VIDU2_0 :> {4, 8}) @@ (VIDU1_5 :> {4, 8})

TEXT_TO_VIDEO_MODEL_DURATION_LIMITS ==
    (VIDUQ1 :> {5}) @@ (VIDU1_5 :> {4, 8})

MODEL_DEFAULT_DURATIONS ==
    (VIDUQ1 :> 5) @@ (VIDUQ1_CLASSIC :> 5) @@ (VIDU2_0 :> 4) @@ (VIDU1_5 :> 4)

MaxPromptLen == 1500
MaxPayloadLen == 1048576
MinTextLen == 4
MaxTextLen == 2000
MinAudioDuration == 2
MaxAudioDuration == 10
DefaultAudioDuration == 10
MaxRefImages == 7
\* speed is modelled in tenths: 0.5 .. 1.5
MinSpeedTenths == 5
MaxSpeedTenths == 15
MaxVolume == 10

Str(len, stripped) == [len |-> len, stripped |-> stripped]
\* truth value of an optional string: None and "" are falsy
Truthy(s) == s # None /\ s[1].len > 0

Raise(exc) == [exc |-> exc, duration |-> None]
Pass(duration) == [exc |-> "none", duration |-> duration]

\* the body shared by the four _validate_duration* methods, over the
\* table each of them indexes.  ViduModel(model_str) raises ValueError for
\* a string outside the enumeration; indexing a table that has no entry
\* for the model raises KeyError.
ValidateDurationIn(limits, model, duration) ==
    IF model \notin ViduModel THEN Raise("ValueError")
    ELSE IF duration = None THEN Pass(Some(MODEL_DEFAULT_DURATIONS[model]))
    ELSE IF model \notin DOMAIN limits THEN Raise("KeyError")
    ELSE IF duration[1] \notin limits[model] THEN Raise("ValueError")
    ELSE Pass(duration)

ValidateDuration(model, duration) ==
    ValidateDurationIn(MODEL_DURATION_LIMITS, model, duration)

ValidateDurationForReference(model, duration) ==
    ValidateDurationIn(REFERENCE_MODEL_DURATION_LIMITS, model, duration)

ValidateDurationForStartEnd(model, duration) ==
    ValidateDurationIn(START_END_MODEL_DURATION_LIMITS, model, duration)

ValidateDurationForTextToVideo(model, duration) ==
    ValidateDurationIn(TEXT_TO_VIDEO_MODEL_DURATION_LIMITS, model, duration)

PayloadTooLong(payload) == Truthy(payload) /\ payload[1].len > MaxPayloadLen

ImageToVideoCheckAtLeastOne(a) ==
    IF a.images = 0 THEN Raise("ValueError")
    ELSE IF Truthy(a.prompt) /\ a.prompt[1].len > MaxPromptLen THEN Raise("ValueError")
    ELSE IF PayloadTooLong(a.payload) THEN Raise("ValueError")
    ELSE ValidateDuration(a.model, a.duration)

ImageToVideoCheck(a) ==
    IF a.images = 0 \/ a.images # 1 THEN Raise("ValueError")
    ELSE IF Truthy(a.prompt) /\ a.prompt[1].len > MaxPromptLen THEN Raise("ValueError")
    ELSE IF PayloadTooLong(a.payload) THEN Raise("ValueError")
    ELSE ValidateDuration(a.model, a.duration)

ReferenceToVideoCheck(a) ==
    IF a.images = 0 \/ a.images < 1 \/ a.images > MaxRefImages THEN Raise("ValueError")
    ELSE IF a.prompt.stripped = 0 THEN Raise("ValueError")
    ELSE IF a.prompt.len > MaxPromptLen THEN Raise("ValueError")
    ELSE IF PayloadTooLong(a.payload) THEN Raise("ValueError")
    ELSE ValidateDurationForReference(a.model, a.duration)

StartEndToVideoCheck(a) ==
    IF a.images = 0 \/ a.images # 2 THEN Raise("ValueError")
    ELSE IF Truthy(a.prompt) /\ a.prompt[1].len > MaxPromptLen THEN Raise("ValueError")
    ELSE IF PayloadTooLong(a.payload) THEN Raise("ValueError")
    ELSE ValidateDurationForStartEnd(a.model, a.duration)

TextToVideoCheck(a) ==
    IF a.prompt.stripped = 0 THEN Raise("ValueError")
    ELSE IF a.prompt.len > MaxPromptLen THEN Raise("ValueError")
    ELSE IF a.style \notin {"general", "anime"} THEN Raise("ValueError")
    ELSE IF PayloadTooLong(a.payload) THEN Raise("ValueError")
    ELSE ValidateDurationForTextToVideo(a.model, a.duration)

UpscaleProCheck(a) ==
    IF ~ a.video_url /\ ~ a.video_creation_id THEN Raise("ValueError")
    ELSE IF a.upscale_resolution # None
            /\ a.upscale_resolution[1] \notin {"1080p", "2K", "4K", "8K"}
         THEN Raise("ValueError")
    ELSE IF PayloadTooLong(a.payload) THEN Raise("ValueError")
    ELSE Pass(None)

LipSyncCheck(a) ==
    IF ~ a.video_url THEN Raise("ValueError")
    ELSE IF ~ a.audio_url /\ ~ Truthy(a.text) THEN Raise("ValueError")
    ELSE IF Truthy(a.text) /\ (a.text[1].len < MinTextLen \/ a.text[1].len > MaxTextLen)
         THEN Raise("ValueError")
    ELSE IF a.speed # None /\ (a.speed[1] < MinSpeedTenths \/ a.speed[1] > MaxSpeedTenths)
         THEN Raise("ValueError")
    ELSE IF a.volume # None /\ (a.volume[1] < 0 \/ a.volume[1] > MaxVolume)
         THEN Raise("ValueError")
    ELSE IF PayloadTooLong(a.payload) THEN Raise("ValueError")
    ELSE Pass(None)

DurationOutOfRange(duration) ==
    duration # None /\ (duration[1] < MinAudioDuration \/ duration[1] > MaxAudioDuration)

TextToAudioCheck(a) ==
    IF a.prompt.stripped = 0 THEN Raise("ValueError")
    ELSE IF a.prompt.len > MaxPromptLen THEN Raise("ValueError")
    ELSE IF DurationOutOfRange(a.duration) THEN Raise("ValueError")
    ELSE IF PayloadTooLong(a.payload) THEN Raise("ValueError")
    ELSE Pass(a.duration)

\* actual_duration = duration or 10.0
ActualDuration(duration) ==
    IF duration = None \/ duration[1] = 0 THEN DefaultAudioDuration ELSE duration[1]

EventRejectedAtEnd(e, duration) ==
    \/ e.from < 0
    \/ e.to >= ActualDuration(duration)
    \/ e.from >= e.to
    \/ e.prompt.len > MaxPromptLen

\* the checks of one event of timing_prompts
EventRejected(e, duration) ==
    \/ e.from < 0
    \/ e.to > ActualDuration(duration)
    \/ e.from >= e.to
    \/ e.prompt.len > MaxPromptLen

TimingToAudioCheck(a) ==
    IF a.timing_prompts = <<>> THEN Raise("ValueError")
    ELSE IF DurationOutOfRange(a.duration) THEN Raise("ValueError")
    ELSE IF \E i \in 1 .. Len(a.timing_prompts) :
               EventRejected(a.timing_prompts[i], a.duration)
         THEN Raise("ValueError")
    ELSE IF PayloadTooLong(a.payload) THEN Raise("ValueError")
    ELSE Pass(a.duration)

SubmitErrCodes == {"429001", "400007"}

\* what the network can hand back to a submission
SubmitWires ==
    TransportFailures
    \cup { Json(ErrorBody(c)) : c \in SubmitErrCodes }
    \cup { Json(TaskBody("t1", CREATED, "", <<>>)) }

SubmitRequest(endpoint, duration) ==
    [method |-> "POST", path |-> <<endpoint>>, duration |-> duration]

\* the caller is between two calls
CallerIdle == call.op = "none"

\* one submission call: the validation, then (only when it passed) the
\* single _make_request
SubmitCall(op, a, chk, endpoint) ==
    /\ IF chk.exc # "none"
       THEN call' = [op |-> op, args |-> a, exc |-> chk.exc, code |-> "",
                     reqs |-> {}, nreq |-> 0]
       ELSE \E wire \in SubmitWires :
            \E exc \in MakeRequestRaises(wire) :
               call' = [op |-> op, args |-> a, exc |-> exc,
                        code |-> RaisedCode(wire, exc),
                        reqs |-> {SubmitRequest(endpoint, chk.duration)},
                        nreq |-> MakeRequestAttempts(wire)]
    /\ UNCHANGED <<srv, tasks, calls>>

(***************************************************************************)
(* The arguments the submissions are tried with.                           *)
(***************************************************************************)
MaxEvents == 2

Opt(S) == {None} \cup { Some(x) : x \in S }

ModelArgs == ViduModel \cup {"vidu3"}
ImageCounts == 0 .. MaxImages
VideoDurations == Opt({4, 5, 6, 8})
AudioDurations == Opt({1, 2, 6, 10, 11})
OptPrompts == Opt({Str(MaxPromptLen, MaxPromptLen), Str(MaxPromptLen + 1, MaxPromptLen + 1)})
Prompts == {Str(0, 0), Str(2, 0), Str(5, 5), Str(MaxPromptLen, MaxPromptLen),
            Str(MaxPromptLen + 1, MaxPromptLen + 1)}
Payloads == Opt({Str(MaxPayloadLen, MaxPayloadLen), Str(MaxPayloadLen + 1, MaxPayloadLen + 1)})
Texts == Opt({Str(0, 0), Str(MinTextLen - 1, MinTextLen - 1), Str(MinTextLen, MinTextLen),
              Str(MaxTextLen, MaxTextLen), Str(MaxTextLen + 1, MaxTextLen + 1)})
Speeds == Opt({MinSpeedTenths - 1, MinSpeedTenths, MaxSpeedTenths, MaxSpeedTenths + 1})
Volumes == Opt({-1, 0, MaxVolume, MaxVolume + 1})
Event(from, to, len) == [from |-> from, to |-> to, prompt |-> Str(len, len)]
Events ==
    {Event(0, 3, 1), Event(2, 6, 1), Event(5, 7, 1), Event(-1, 3, 1), Event(5, 3, 1),
     Event(3, 3, 1), Event(0, 11, 1), Event(0, 3, MaxPromptLen + 1)}
EventLists == UNION { [1 .. n -> Events] : n \in 0 .. MaxEvents }

ImageToVideoArgs ==
    [model : ModelArgs, images : ImageCounts, prompt : OptPrompts,
     duration : VideoDurations, payload : Payloads]
ReferenceToVideoArgs ==
    [model : ModelArgs, images : ImageCounts, prompt : Prompts,
     duration : VideoDurations, payload : Payloads]
TextToVideoArgs ==
    [model : ModelArgs, style : {"general", "anime", "comic"}, prompt : Prompts,
     duration : VideoDurations, payload : Payloads]
UpscaleProArgs ==
    [video_url : BOOLEAN, video_creation_id : BOOLEAN,
     upscale_resolution : Opt({"1080p", "8K", "16K"}), payload : Payloads]
LipSyncArgs ==
    [video_url : BOOLEAN, audio_url : BOOLEAN, text : Texts, speed : Speeds,
     volume : Volumes, payload : Payloads]
TextToAudioArgs ==
    [prompt : Prompts, duration : AudioDurations, payload : Payloads]
TimingToAudioArgs ==
    [timing_prompts : EventLists, duration : AudioDurations,
     payload : {None, Some(Str(MaxPayloadLen + 1, MaxPayloadLen + 1))}]

ImageToVideo ==
    /\ CallerIdle
    /\ \E a \in ImageToVideoArgs :
       SubmitCall("image_to_video", a, ImageToVideoCheck(a), "/ent/v2/img2video")
ReferenceToVideo ==
    /\ CallerIdle
    /\ \E a \in ReferenceToVideoArgs :
       SubmitCall("reference_to_video", a, ReferenceToVideoCheck(a), "/ent/v2/reference2video")
StartEndToVideo ==
    /\ CallerIdle
    /\ \E a \in ImageToVideoArgs :
       SubmitCall("start_end_to_video", a, StartEndToVideoCheck(a), "/ent/v2/start-end2video")
TextToVideo ==
    /\ CallerIdle
    /\ \E a \in TextToVideoArgs :
       SubmitCall("text_to_video", a, TextToVideoCheck(a), "/ent/v2/text2video")
UpscalePro ==
    /\ CallerIdle
    /\ \E a \in UpscaleProArgs :
       SubmitCall("upscale_pro", a, UpscaleProCheck(a), "/ent/v2/upscale-new")
LipSync ==
    /\ CallerIdle
    /\ \E a \in LipSyncArgs :
       SubmitCall("lip_sync", a, LipSyncCheck(a), "/ent/v2/lip-sync")
TextToAudio ==
    /\ CallerIdle
    /\ \E a \in TextToAudioArgs :
       SubmitCall("text_to_audio", a, TextToAudioCheck(a), "/ent/v2/text2audio")
TimingToAudio ==
    /\ CallerIdle
    /\ \E a \in TimingToAudioArgs :
       SubmitCall("timing_to_audio", a, TimingToAudioCheck(a), "/ent/v2/timing2audio")

\* ViduClient.query_task and ViduClient.cancel_task, called directly
QueryTask(t) ==
    /\ CallerIdle
    /\ \E wire \in StatusWires(t, StatusFailures) :
       \E exc \in MakeRequestRaises(wire) :
          call' = [op |-> "query_task", args |-> t, exc |-> exc,
                   code |-> RaisedCode(wire, exc),
                   reqs |-> {QueryRequest(t)},
                   nreq |-> MakeRequestAttempts(wire)]
    /\ UNCHANGED <<srv, tasks, calls>>

CancelTask(t) ==
    /\ CallerIdle
    /\ \E wire \in CancelWires(t, CancelFailures) :
       \E exc \in MakeRequestRaises(wire) :
          /\ call' = [op |-> "cancel_task", args |-> t, exc |-> exc,
                      code |-> RaisedCode(wire, exc),
                      reqs |-> {CancelRequest(t)},
                      nreq |-> MakeRequestAttempts(wire)]
          /\ srv' \in CancelEffects(t, exc)
    /\ UNCHANGED <<tasks, calls>>

\* the caller is done with the result of a call and may make the next one
DropResult ==
    /\ call.op # "none"
    /\ call' = NoCall
    /\ UNCHANGED <<srv, tasks, calls>>

SubmitOps == {"image_to_video", "reference_to_video", "start_end_to_video",
              "text_to_video", "upscale_pro", "lip_sync", "text_to_audio",
              "timing_to_audio"}

\* a single-threaded caller of the client, one call at a time
NextClient ==
    \/ ImageToVideo
    \/ ReferenceToVideo
    \/ StartEndToVideo
    \/ TextToVideo
    \/ UpscalePro
    \/ LipSync
    \/ TextToAudio
    \/ TimingToAudio
    \/ QueryTask("t1")
    \/ CancelTask("t1")
    \/ DropResult
    \/ ServerAdvance("t1")

SpecClient == Init /\ [][NextClient]_vars

(***************************************************************************)
(* Properties of the client calls.                                         *)
(***************************************************************************)
\* the documented constraints of the submissions: image counts, length
\* ceilings of prompts, texts and payloads, the ranges of speed, volume and
\* audio duration, the event rules of timed audio, and the duration
\* whitelist of the operation family for the chosen model
TooLong(s, max) == s # None /\ s[1].len > max

OutsideWhitelist(limits, model, duration) ==
    /\ duration # None
    /\ model \in ViduModel
    /\ (model \notin DOMAIN limits \/ duration[1] \notin limits[model])

DocumentedViolation(op, a) ==
    CASE op = "image_to_video" ->
           \/ a.images # 1
           \/ TooLong(a.prompt, MaxPromptLen) \/ TooLong(a.payload, MaxPayloadLen)
           \/ OutsideWhitelist(MODEL_DURATION_LIMITS, a.model, a.duration)
      [] op = "reference_to_video" ->
           \/ a.images < 1 \/ a.images > MaxRefImages
           \/ a.prompt.len > MaxPromptLen \/ TooLong(a.payload, MaxPayloadLen)
           \/ OutsideWhitelist(REFERENCE_MODEL_DURATION_LIMITS, a.model, a.duration)
      [] op = "start_end_to_video" ->
           \/ a.images # 2
           \/ TooLong(a.prompt, MaxPromptLen) \/ TooLong(a.payload, MaxPayloadLen)
           \/ OutsideWhitelist(START_END_MODEL_DURATION_LIMITS, a.model, a.duration)
      [] op = "text_to_video" ->
           \/ a.prompt.len > MaxPromptLen \/ TooLong(a.payload, MaxPayloadLen)
           \/ OutsideWhitelist(TEXT_TO_VIDEO_MODEL_DURATION_LIMITS, a.model, a.duration)
      [] op = "upscale_pro" -> TooLong(a.payload, MaxPayloadLen)
      [] op = "lip_sync" ->
           \/ (Truthy(a.text) /\ (a.text[1].len < MinTextLen \/ a.text[1].len > MaxTextLen))
           \/ (a.speed # None /\ (a.speed[1] < MinSpeedTenths \/ a.speed[1] > MaxSpeedTenths))
           \/ (a.volume # None /\ (a.volume[1] < 0 \/ a.volume[1] > MaxVolume))
           \/ TooLong(a.payload, MaxPayloadLen)
      [] op = "text_to_audio" ->
           \/ a.prompt.len > MaxPromptLen \/ TooLong(a.payload, MaxPayloadLen)
           \/ DurationOutOfRange(a.duration)
      [] op = "timing_to_audio" ->
           \/ DurationOutOfRange(a.duration)
           \/ TooLong(a.payload, MaxPayloadLen)
           \/ \E i \in 1 .. Len(a.timing_prompts) :
                LET e == a.timing_prompts[i] IN
                \/ e.from >= e.to \/ e.from < 0
                \/ e.to > (IF a.duration = None THEN DefaultAudioDuration ELSE a.duration[1])
                \/ e.prompt.len > MaxPromptLen
      [] OTHER -> FALSE

\* C1: every submission whose parameters violate a documented constraint
\* raises the local validation error (ValueError), and the call has sent
\* no HTTP request.
C1_ViolationRaisesValueError ==
    (call.op \in SubmitOps /\ DocumentedViolation(call.op, call.args)) =>
       /\ call.exc = "ValueError"
       /\ call.nreq = 0
       /\ call.reqs = {}

InFlight == {CREATED, QUEUEING, PROCESSING}

Waiting(c) == c.op = "wait"
Returned(c) == c.pc = "done" /\ c.exc = "none"
\* the last poll of the call came back with a decoded, error-free view
PolledView(c) == c.polls > 0 /\ c.resp # None
\* the last poll of the call raised
PollFailed(c) == c.polls > 0 /\ c.resp = None

\* C2: wait_for_completion alternates poll and sleep.  After a poll that
\* reports created, queueing or processing it sleeps exactly one
\* check_interval before the next iteration; after a poll that reports
\* success or failed it returns that very view at once, with no further
\* sleep and no further poll; it never returns a non-terminal view.
C2_WaitAlternatesPollAndSleep ==
    \A h \in Handles :
      LET c == calls[h] IN
      Waiting(c) =>
        /\ c.slept = c.sleeps * c.check_interval
        /\ c.nreq = c.polls
        /\ (c.pc = "sleep") => (c.sleeps = c.polls - 1)
        /\ (c.pc \in {"check", "poll"}) => (c.sleeps = c.polls)
        /\ (PolledView(c) /\ c.resp[1].state \in InFlight) =>
              \/ c.pc = "sleep"
              \/ c.pc \in {"check", "poll"}
              \/ c.pc = "done" /\ c.exc = "TimeoutError" /\ c.sleeps = c.polls
        /\ (PolledView(c) /\ c.resp[1].state \in {SUCCESS, FAILED}) =>
              /\ Returned(c)
              /\ c.sleeps = c.polls - 1
              /\ tasks[h].task_info = c.resp
        /\ Returned(c) =>
              /\ PolledView(c)
              /\ c.resp[1].state \in {SUCCESS, FAILED}

C2_Witness ==
    \E h \in Handles :
      /\ Waiting(calls[h]) /\ Returned(calls[h])
      /\ calls[h].polls >= 2
      /\ calls[h].check_interval = 1
      /\ calls[h].resp[1].state = FAILED

\* The bounds of C3: when no poll reports a terminal state, wait_for_completion ends and
\* raises TimeoutError; it raises once the time elapsed since the call
\* began exceeds timeout, and (after at least one poll) no later than
\* timeout plus one check_interval plus the duration of one poll; with the
\* timeout exceeded at entry it raises at once.
C3_TimeoutBounds ==
    \A h \in Handles :
      LET c == calls[h] IN
      /\ (Waiting(c) /\ c.exc = "TimeoutError") =>
            /\ c.pc = "done"
            /\ c.elapsed > c.timeout
            /\ (c.polls > 0) =>
                  c.elapsed <= c.timeout + c.check_interval + c.lastDur
            /\ (c.polls = 0) => (c.elapsed = 0)
      /\ (Waiting(c) /\ c.pc = "done" /\ PolledView(c)
            /\ ~ IsTerminal(c.resp[1].state)) => (c.exc = "TimeoutError")

\* C3: a running wait_for_completion always ends, and whenever it ends in
\* TimeoutError the bounds above hold: raised after timeout is exceeded, and
\* no later than timeout + check_interval + the duration of one poll.
C3_RaisesTimeout ==
    /\ [] C3_TimeoutBounds
    /\ \A h \in Handles :
         (Waiting(calls[h]) /\ calls[h].pc # "done") ~> (calls[h].pc = "done")

C3_Witness ==
    \E h \in Handles :
      LET c == calls[h] IN
      /\ Waiting(c) /\ c.exc = "TimeoutError"
      /\ c.timeout = 2 /\ c.check_interval = 1 /\ c.lastDur = 2
      /\ c.elapsed = c.timeout + c.check_interval + c.lastDur
      /\ c.resp[1].state = PROCESSING

C5_PollErrorsPropagate ==
    \A h \in Handles :
      LET c == calls[h] IN
      (Waiting(c) /\ PollFailed(c)) =>
        /\ c.pc = "done"
        /\ c.sleeps = c.polls - 1
        /\ c.nreq = c.polls
        /\ (c.wire \in {"conn_fail", "http_error"}) => (c.exc = "RequestException")
        /\ (c.wire = "json") => (c.exc = "ViduError" /\ c.code \in StatusErrCodes)
        /\ c.exc \notin {"none", "TimeoutError"}

C5_Witness ==
    \E h \in Handles :
      LET c == calls[h] IN
      /\ Waiting(c) /\ c.exc = "ViduError" /\ c.code = "429001"
      /\ c.polls >= 2 /\ c.elapsed <= c.timeout

(***************************************************************************)
(* The cached view of a handle.                                            *)
(***************************************************************************)
\* position of a known state in created -> queueing -> processing ->
\* {success | failed}
Rank(state) ==
    CASE state = CREATED -> 0
      [] state = QUEUEING -> 1
      [] state = PROCESSING -> 2
      [] OTHER -> 3

Cached(h) == tasks[h].task_info

\* C6 (as claimed): every poll of a handle, by refresh or inside wait,
\* replaces the handle's cached view by the fetched response.
C6_EveryPollReplacesView ==
    \A h \in Handles :
      (calls[h].op \in {"refresh", "wait"} /\ calls[h].resp # None) =>
         Cached(h) = calls[h].resp

\* The amended C6: refresh, and the poll of a wait that reports a terminal
\* state (the one the wait returns), replace the cached view by the fetched
\* response as a whole; a poll inside a wait that reports a non-terminal
\* state, and a poll that fails, leave the cached view as it was.  With a
\* server whose states do not regress, the cached state never regresses.
C6_ViewReplaced ==
    \A h \in Handles :
      LET c == calls[h] IN
      /\ (c.op = "refresh" /\ c.exc = "none") => (Cached(h) = c.resp)
      /\ (Waiting(c) /\ Returned(c)) => (Cached(h) = c.resp)

C6_ViewStep ==
    \A h \in Handles :
      /\ (Waiting(calls'[h]) /\ ~ Returned(calls'[h])) => (Cached(h)' = Cached(h))
      /\ (calls'[h].exc # "none") => (Cached(h)' = Cached(h))
      /\ (/\ Cached(h) # None /\ Cached(h)' # None
          /\ Cached(h)[1].state \in ViduTaskStatus
          /\ Cached(h)'[1].state \in ViduTaskStatus) =>
             Rank(Cached(h)'[1].state) >= Rank(Cached(h)[1].state)

\* C6 (amended), as one formula: the views stored are the responses as a
\* whole, non-terminal and failed polls of a wait store nothing, and the
\* cached state never moves backwards along the known chain.
C6_ViewNeverRegresses == ([] C6_ViewReplaced) /\ [][C6_ViewStep]_vars

C6_Witness ==
    \E h \in Handles :
      LET c == calls[h] IN
      /\ Waiting(c) /\ c.pc = "sleep" /\ c.resp # None
      /\ c.resp[1].state = PROCESSING
      /\ Cached(h) # None /\ Cached(h)[1].state = CREATED

\* The step property of C7: with two handles driven from independent call sites in any
\* interleaving of refresh, wait and cancel, a step changes the fields
\* (task id, cached view) of at most one handle, the one whose own call
\* made the step; every other handle keeps its fields.
C7_Step ==
    \A h \in Handles :
      (tasks'[h] # tasks[h]) =>
         /\ calls'[h] # calls[h]
         /\ tasks'[h].task_id = tasks[h].task_id
         /\ \A g \in Handles \ {h} : tasks'[g] = tasks[g] /\ calls'[g] = calls[g]

\* C7: in every step of every interleaving, an operation on one handle
\* leaves the task id and the cached view of every other handle unchanged.
C7_HandlesIndependent == [][C7_Step]_vars

C7_Witness ==
    /\ tasks[1].task_id = tasks[2].task_id
    /\ Cached(1) # None /\ Cached(1)[1].state = CREATED
    /\ Cached(2) # None /\ Cached(2)[1].state = SUCCESS
    /\ calls[1].op = "cancel"
    /\ Waiting(calls[2]) /\ Returned(calls[2])

\* C8: the wait timeout is local.  Every request sent by
\* wait_for_completion, also when it raises TimeoutError, is the GET of
\* that task's status path; it never sends the cancel request.
C8_WaitSendsOnlyStatusGets ==
    \A h \in Handles :
      LET c == calls[h] IN
      Waiting(c) =>
        /\ c.reqs \subseteq {QueryRequest(tasks[h].task_id)}
        /\ \A r \in c.reqs : r.method = "GET"
        /\ CancelRequest(tasks[h].task_id) \notin c.reqs
        /\ c.nreq = c.polls

C8_Witness ==
    \E h \in Handles :
      LET c == calls[h] IN
      /\ Waiting(c) /\ c.exc = "TimeoutError" /\ c.polls >= 1
      /\ srv[tasks[h].task_id].state = PROCESSING

\* The parts of C9: cancel sends exactly one POST, to that task's cancel path, and
\* leaves the handle's cached view as it was, whether the server accepts
\* or rejects the cancellation.
C9_CancelRequest ==
    \A h \in Handles :
      LET c == calls[h] IN
      (c.op = "cancel") =>
        /\ c.pc = "done"
        /\ c.nreq = 1
        /\ c.reqs = {[method |-> "POST",
                      path |-> <<"/ent/v2/task/", tasks[h].task_id, "/cancel">>]}

C9_CancelStep ==
    \A h \in Handles :
      (calls'[h].op = "cancel" /\ calls'[h] # calls[h]) => (tasks'[h] = tasks[h])

\* C9: every cancel sends exactly one POST to the task's cancel path and
\* leaves the handle's cached view unchanged, accepted or rejected.
C9_CancelLeavesView == ([] C9_CancelRequest) /\ [][C9_CancelStep]_vars

C9_Witness ==
    \E h \in Handles :
      LET c == calls[h] IN
      /\ c.op = "cancel" /\ c.exc = "none"
      /\ Cached(h) # None /\ Cached(h)[1].state = PROCESSING
      /\ srv[tasks[h].task_id].state = FAILED
      /\ srv[tasks[h].task_id].err_code = "Cancelled"

(***************************************************************************)
(* Properties of the dispatcher, ViduClient._make_request, seen through    *)
(* the calls on a handle.                                                  *)
(***************************************************************************)
\* the finished calls whose last request got the wire outcome kind
Dispatched(c, kind) == c.pc = "done" /\ c.exc # "TimeoutError" /\ c.wire = kind

\* C11: a request answered with a non-2xx status ends in a ViduError (the
\* error of the taxonomy), never in the exception kind a connection
\* failure ends in.
C11_Non2xxRaisesApiError ==
    \A h \in Handles :
        Dispatched(calls[h], "http_error") =>
            /\ calls[h].exc = "ViduError"
            /\ calls[h].exc \notin MakeRequestRaises(ConnFail)

\* C12: a response whose body is not valid JSON ends in an error kind of
\* its own: not the kind a connection failure ends in, not the ViduError of
\* an error-coded body, not the ValueError of the local validation.
C12_BadJsonRaisesParseError ==
    \A h \in Handles :
        Dispatched(calls[h], "bad_json") =>
            /\ calls[h].exc # "none"
            /\ calls[h].exc \notin MakeRequestRaises(ConnFail)
            /\ calls[h].exc # "ViduError"
            /\ calls[h].exc # Raise("ValueError").exc

(***************************************************************************)
(* The error taxonomy, ViduErrorHandler of error_codes.py.  A code is a    *)
(* string; a message is a tuple, <<text>> for a registered code and        *)
(* <<"unknown error", code>> for the formatted fallback.                   *)
(***************************************************************************)
\* ViduErrorCode: the registered codes
ViduErrorCode ==
    {"0"} \cup
    {"400", "400001", "400002", "400003", "400004", "400005", "400006",
     "400007", "400008", "400009", "400010", "400011", "400012", "400013",
     "400014", "400015", "400016", "400017"} \cup
    {"401", "401001", "401002", "401003"} \cup
    {"403", "403001", "403002", "403003", "403004"} \cup
    {"404", "404001", "404002", "404003"} \cup
    {"429", "429001"} \cup
    {"500", "500001", "500002", "500003", "500004"} \cup
    {"409001", "409002", "409003"} \cup
    {"413001", "415001", "422001"}

ERROR_MESSAGES ==
    ("0" :> <<"operation succeeded">>) @@
    ("400" :> <<"request parameter error">>) @@
    ("400001" :> <<"missing required parameter">>) @@
    ("400002" :> <<"invalid model name">>) @@
    ("400003" :> <<"invalid image format">>) @@
    ("400004" :> <<"image size over the limit">>) @@
    ("400005" :> <<"image ratio not allowed">>) @@
    ("400006" :> <<"prompt length over the limit">>) @@
    ("400007" :> <<"invalid video duration">>) @@
    ("400008" :> <<"invalid resolution">>) @@
    ("400009" :> <<"invalid aspect ratio">>) @@
    ("400010" :> <<"invalid movement amplitude">>) @@
    ("400011" :> <<"invalid seed">>) @@
    ("400012" :> <<"payload length over the limit">>) @@
    ("400013" :> <<"invalid callback URL">>) @@
    ("400014" :> <<"invalid video URL">>) @@
    ("400015" :> <<"invalid audio URL">>) @@
    ("400016" :> <<"invalid voice ID">>) @@
    ("400017" :> <<"invalid timing parameters">>) @@
    ("401" :> <<"authentication failed">>) @@
    ("401001" :> <<"invalid API key">>) @@
    ("401002" :> <<"API key expired">>) @@
    ("401003" :> <<"invalid access token">>) @@
    ("403" :> <<"insufficient permissions">>) @@
    ("403001" :> <<"insufficient permissions">>) @@
    ("403002" :> <<"account suspended">>) @@
    ("403003" :> <<"request rate over the limit">>) @@
    ("403004" :> <<"quota used up">>) @@
    ("404" :> <<"resource not found">>) @@
    ("404001" :> <<"task not found">>) @@
    ("404002" :> <<"model not found">>) @@
    ("404003" :> <<"voice not found">>) @@
    ("429" :> <<"too many requests">>) @@
    ("429001" :> <<"request rate limit hit">>) @@
    ("500" :> <<"internal server error">>) @@
    ("500001" :> <<"service unavailable">>) @@
    ("500002" :> <<"error while processing">>) @@
    ("500003" :> <<"model processing error">>) @@
    ("500004" :> <<"storage error">>) @@
    ("409001" :> <<"task already completed">>) @@
    ("409002" :> <<"task already cancelled">>) @@
    ("409003" :> <<"task in progress">>) @@
    ("413001" :> <<"file too large">>) @@
    ("415001" :> <<"unsupported file format">>) @@
    ("422001" :> <<"file corrupted">>)

\* ViduErrorHandler.get_error_message: dict.get with a formatted default
GetErrorMessage(error_code) ==
    IF error_code \in DOMAIN ERROR_MESSAGES
    THEN ERROR_MESSAGES[error_code]
    ELSE <<"unknown error", error_code>>

\* JSON values of the details field: null, or an object given by its items
JsonNull == [null |-> TRUE, items |-> {}]
Dict(items) == [null |-> FALSE, items |-> items]
Falsy(v) == v.null \/ v.items = {}

\* ViduError.__init__: self.details = details or {}
ViduError(error_code, message, details) ==
    [error_code |-> error_code, message |-> message,
     details |-> IF details = None \/ Falsy(details[1]) THEN Dict({}) ELSE details[1]]

\* ViduErrorHandler.create_error
CreateError(error_code, details) ==
    ViduError(error_code, GetErrorMessage(error_code), details)

\* ViduErrorHandler.handle_api_response: the ViduError it raises, None when
\* it returns; response_data.get("details", {}) is {} for an absent field
HandleApiResponse(response_data) ==
    IF HandleApiResponseRaises(response_data)
    THEN Some(CreateError(response_data.error_code[1],
                          IF response_data.details = None
                          THEN Some(Dict({})) ELSE response_data.details))
    ELSE None

\* the codes the taxonomy is tried with: every registered code and some
\* that are not registered
UnknownCodes == {"", "418", "429002", "999999"}
Codes == ViduErrorCode \cup UnknownCodes

DetailsChoices ==
    {JsonNull, Dict({}), Dict({<<"field", "duration">>}),
     Dict({<<"field", "prompt">>, <<"limit", "1500">>})}

\* decoded responses, for what handle_api_response reads of them
ResponseData == [error_code : Opt(Codes), details : Opt(DetailsChoices)]

\* the outcome of one call of a function of the taxonomy
Outcome(op, args, raised, result) ==
    [op |-> op, args |-> args, exc |-> IF raised THEN "ViduError" ELSE "none",
     code |-> "", reqs |-> {}, nreq |-> 0, result |-> result]

HandleApiResponseCall ==
    /\ \E response_data \in ResponseData :
         LET e == HandleApiResponse(response_data)
         IN call' = Outcome("handle_api_response", response_data, e # None, e)
    /\ UNCHANGED <<srv, tasks, calls>>

\* ViduErrorHandler.get_retry_delay: base_delays, the default base delay
\* of base_delays.get and the ceiling of the delay
BASE_DELAYS ==
    ("429" :> 60) @@ ("429001" :> 30) @@ ("500001" :> 5) @@ ("500" :> 2) @@
    ("500002" :> 2) @@ ("500003" :> 2) @@ ("500004" :> 2)
DefaultBaseDelay == 1
MaxRetryDelay == 300

BaseDelay(error_code) ==
    IF error_code \in DOMAIN BASE_DELAYS THEN BASE_DELAYS[error_code]
    ELSE DefaultBaseDelay

Min(a, b) == IF a <= b THEN a ELSE b

GetRetryDelayFromAttempt(error_code, attempt) ==
    Min(BaseDelay(error_code) * (2 ^ attempt), MaxRetryDelay)

GetRetryDelayUncapped(error_code, attempt) ==
    BaseDelay(error_code) * (2 ^ (attempt - 1))

\* min(base_delay * (2 ** (attempt - 1)), 300), for attempt >= 1
GetRetryDelay(error_code, attempt) ==
    Min(BaseDelay(error_code) * (2 ^ (attempt - 1)), MaxRetryDelay)

\* the attempts the delay is asked for
MaxAttempt == 10
Attempts == 1 .. MaxAttempt

GetRetryDelayCall ==
    /\ \E error_code \in Codes, attempt \in Attempts :
         call' = Outcome("get_retry_delay", <<error_code, attempt>>, FALSE,
                         GetRetryDelay(error_code, attempt))
    /\ UNCHANGED <<srv, tasks, calls>>

HTTP_STATUS_CODES ==
    [c \in {"400", "400001", "400002", "400003", "400004", "400005", 
         "400006", "400007", "400008", "400009", "400010", "400011", "400012", 
         "400013", "400014", "400015", "400016", "400017"} |-> 400] @@
    [c \in {"401", "401001", "401002", "401003"} |-> 401] @@
    [c \in {"403", "403001", "403002", "403003", "403004"} |-> 403] @@
    [c \in {"404", "404001", "404002", "404003"} |-> 404] @@
    [c \in {"429", "429001"} |-> 429] @@
    [c \in {"500", "500001", "500002", "500003", "500004"} |-> 500] @@
    [c \in {"409001", "409002", "409003"} |-> 409] @@
    [c \in {"413001"} |-> 413] @@
    [c \in {"415001"} |-> 415] @@
    [c \in {"422001"} |-> 422]
DefaultHttpStatus == 500

GetHttpStatusCodeDefault400(error_code) ==
    IF error_code \in DOMAIN HTTP_STATUS_CODES
    THEN HTTP_STATUS_CODES[error_code] ELSE 400

\* ViduErrorHandler.get_http_status_code: dict.get with the default 500
GetHttpStatusCode(error_code) ==
    IF error_code \in DOMAIN HTTP_STATUS_CODES
    THEN HTTP_STATUS_CODES[error_code] ELSE DefaultHttpStatus

\* ViduErrorHandler.get_suggested_action: action_map and its default
ACTION_MAP ==
    ("401001" :> <<"check that the API key is right">>) @@
    ("401002" :> <<"renew the API key">>) @@
    ("403004" :> <<"upgrade the account or wait for the quota reset">>) @@
    ("403003" :> <<"lower the request rate">>) @@
    ("400004" :> <<"keep the image within 50MB">>) @@
    ("400005" :> <<"keep the image ratio between 1:4 and 4:1">>) @@
    ("400006" :> <<"shorten the prompt to 1500 characters">>) @@
    ("400012" :> <<"shorten the payload to 1048576 characters">>) @@
    ("404001" :> <<"check the task ID">>) @@
    ("404002" :> <<"check the model name">>) @@
    ("404003" :> <<"check the voice ID">>) @@
    ("413001" :> <<"compress the file or use a smaller one">>) @@
    ("415001" :> <<"use a supported image format">>) @@
    ("500001" :> <<"retry later">>) @@
    ("500" :> <<"retry later, contact support if it persists">>)

GetSuggestedAction(error_code) ==
    IF error_code \in DOMAIN ACTION_MAP THEN ACTION_MAP[error_code]
    ELSE <<"check the request parameters and retry">>

GetErrorMessageCall ==
    /\ \E error_code \in Codes :
         call' = Outcome("get_error_message", error_code, FALSE,
                         GetErrorMessage(error_code))
    /\ UNCHANGED <<srv, tasks, calls>>

GetHttpStatusCodeCall ==
    /\ \E error_code \in Codes :
         call' = Outcome("get_http_status_code", error_code, FALSE,
                         GetHttpStatusCode(error_code))
    /\ UNCHANGED <<srv, tasks, calls>>

GetSuggestedActionCall ==
    /\ \E error_code \in Codes :
         call' = Outcome("get_suggested_action", error_code, FALSE,
                         GetSuggestedAction(error_code))
    /\ UNCHANGED <<srv, tasks, calls>>

IsRetryableErrorCall ==
    /\ \E error_code \in Codes :
         call' = Outcome("is_retryable_error", error_code, FALSE,
                         IsRetryableError(error_code))
    /\ UNCHANGED <<srv, tasks, calls>>

NextErrors ==
    \/ HandleApiResponseCall
    \/ IsRetryableErrorCall
    \/ GetRetryDelayCall
    \/ GetErrorMessageCall
    \/ GetHttpStatusCodeCall
    \/ GetSuggestedActionCall

SpecErrors == Init /\ [][NextErrors]_vars

\* C13: handle_api_response raises iff the response has an error_code
\* field whose value is not "0"; the ViduError carries that code, the
\* message registered for it (the formatted fallback for an unregistered
\* code) and the details object of the response, the empty mapping when
\* the response has none.
C13_RaisesIffErrorCoded ==
    call.op = "handle_api_response" =>
        LET r == call.args
            coded == r.error_code # None /\ r.error_code # Some("0")
        IN /\ (call.exc = "ViduError") <=> coded
           /\ ~coded => call.result = None
           /\ coded =>
                LET e == call.result[1]
                    c == r.error_code[1]
                IN /\ e.error_code = c
                   /\ c \in ViduErrorCode => e.message = ERROR_MESSAGES[c]
                   /\ c \notin ViduErrorCode => e.message = <<"unknown error", c>>
                   /\ e.details = IF r.details \in {None, Some(JsonNull)}
                                  THEN Dict({}) ELSE r.details[1]

\* a response with a registered code and a details object has raised
C13_Witness ==
    /\ call.op = "handle_api_response"
    /\ call.exc = "ViduError"
    /\ call.args.error_code = Some("400007")
    /\ call.result[1].details = Dict({<<"field", "duration">>})

\* the families of codes that are permanent failures
ParameterCodes ==
    {"400", "400001", "400002", "400003", "400004", "400005", "400006",
     "400007", "400008", "400009", "400010", "400011", "400012", "400013",
     "400014", "400015", "400016", "400017"}
AuthCodes == {"401", "401001", "401002", "401003"}
PermissionCodes == {"403", "403001", "403002", "403003", "403004"}
NotFoundCodes == {"404", "404001", "404002", "404003"}
TaskConflictCodes == {"409001", "409002", "409003"}
FileCodes == {"413001", "415001", "422001"}

\* C14: is_retryable_error answers true exactly for 500001, 500, 500002,
\* 500003, 500004, 429 and 429001, and false for every other code,
\* registered or not: the parameter, auth, permission, not-found,
\* task-conflict and file codes among them.
C14_RetryableExactlyTheSeven ==
    call.op = "is_retryable_error" =>
        /\ call.result \in BOOLEAN
        /\ call.result <=> call.args \in {"500001", "500", "500002", "500003",
                                          "500004", "429", "429001"}
        /\ call.args \in ParameterCodes \cup AuthCodes \cup PermissionCodes
                         \cup NotFoundCodes \cup TaskConflictCodes
                         \cup FileCodes \cup UnknownCodes \cup {"0"}
              => call.result = FALSE

\* a retryable code has been classified
C14_Witness ==
    /\ call.op = "is_retryable_error"
    /\ call.args = "500003"
    /\ call.result = TRUE

\* the base delay of a code: 60 for 429, 30 for 429001, 5 for 500001, 2 for
\* the other retryable server codes, 1 for every other code
BaseBackoff(code) ==
    CASE code = "429" -> 60
      [] code = "429001" -> 30
      [] code = "500001" -> 5
      [] code \in {"500", "500002", "500003", "500004"} -> 2
      [] OTHER -> 1

RECURSIVE Doubled(_, _)
Doubled(x, times) == IF times = 0 THEN x ELSE Doubled(x + x, times - 1)

\* C15: for every code and every attempt >= 1 the delay is
\* min(base * 2^(attempt-1), 300); at attempt 1 it is the base delay.
C15_DelayIsCappedDoubling ==
    call.op = "get_retry_delay" =>
        LET code == call.args[1]
            attempt == call.args[2]
            doubled == Doubled(BaseBackoff(code), attempt - 1)
        IN /\ attempt >= 1
           /\ call.exc = "none"
           /\ call.result = IF doubled <= 300 THEN doubled ELSE 300
           /\ attempt = 1 => call.result = BaseBackoff(code)

\* the third delay of 429001 is 30 * 4
C15_Witness ==
    /\ call.op = "get_retry_delay"
    /\ call.args = <<"429001", 3>>
    /\ call.result = 120

\* two delays asked one after the other for the same code, the second for
\* an attempt that is not earlier: the second delay is not shorter, and it
\* is at most 300
C16_Step ==
    (/\ call.op = "get_retry_delay"
     /\ call'.op = "get_retry_delay"
     /\ call'.args[1] = call.args[1]
     /\ 1 <= call.args[2]
     /\ call.args[2] <= call'.args[2])
    => (call.result <= call'.result /\ call'.result <= 300)

\* C16: for every code and all attempts 1 <= n <= m, the delay of attempt
\* n is at most the delay of attempt m, which is at most 300.
C16_DelayMonotoneAndCapped == [][C16_Step]_vars

\* the delay of a late attempt has reached the ceiling
C16_Witness ==
    /\ call.op = "get_retry_delay"
    /\ call.args = <<"500001", 8>>
    /\ call.result = 300

\* the finished calls whose last request was answered with a body whose
\* error_code is code
AnsweredWithCode(c, code) ==
    c.pc = "done" /\ c.exc # "TimeoutError" /\ c.wcode = code

\* C17: a request answered with the body {"error_code": "429001"} ends in a
\* ViduError whose code is retryable and has 30 as its first retry delay.
C17_RateLimitBodyRaisesRetryable ==
    \A h \in Handles :
        AnsweredWithCode(calls[h], "429001") =>
            /\ calls[h].exc = "ViduError"
            /\ IsRetryableError(calls[h].code)
            /\ GetRetryDelay(calls[h].code, 1) = 30

\* the lookups of the taxonomy and the code each was asked about
Lookups == {"get_error_message", "get_http_status_code", "is_retryable_error",
            "get_retry_delay", "get_suggested_action"}
AskedCode == IF call.op = "get_retry_delay" THEN call.args[1] ELSE call.args

\* C18: the lookups are total: for every code, registered or not, the
\* message, HTTP status, retryability, delay and suggested action come back
\* as values and nothing is raised; for a code that is not registered the
\* message is the generic unknown-error message, the HTTP status 500 and
\* the retryability false.
C18_LookupsTotal ==
    call.op \in Lookups =>
        /\ call.exc = "none"
        /\ call.op = "get_error_message" =>
              /\ Len(call.result) >= 1
              /\ AskedCode \notin ViduErrorCode =>
                    call.result = <<"unknown error", AskedCode>>
              /\ AskedCode \in ViduErrorCode => Len(call.result) = 1
        /\ call.op = "get_http_status_code" =>
              /\ call.result \in 100 .. 599
              /\ AskedCode \notin ViduErrorCode => call.result = 500
        /\ call.op = "is_retryable_error" =>
              /\ call.result \in BOOLEAN
              /\ AskedCode \notin ViduErrorCode => call.result = FALSE
        /\ call.op = "get_retry_delay" => call.result \in 1 .. 300
        /\ call.op = "get_suggested_action" => Len(call.result) = 1

\* the HTTP status of a code that is not registered has been looked up
C18_Witness ==
    /\ call.op = "get_http_status_code"
    /\ call.args = "999999"
    /\ call.result = 500

(***************************************************************************)
(* Properties of the validation of the submissions.                        *)
(***************************************************************************)
ImageOps == {"image_to_video", "reference_to_video", "start_end_to_video"}

\* the image counts each family takes
ImageCountOk(op, n) ==
    CASE op = "image_to_video" -> n = 1
      [] op = "reference_to_video" -> 1 <= n /\ n <= 7
      [] op = "start_end_to_video" -> n = 2

WhitelistOf(op) ==
    CASE op = "image_to_video" -> MODEL_DURATION_LIMITS
      [] op = "reference_to_video" -> REFERENCE_MODEL_DURATION_LIMITS
      [] op = "start_end_to_video" -> START_END_MODEL_DURATION_LIMITS
      [] op = "text_to_video" -> TEXT_TO_VIDEO_MODEL_DURATION_LIMITS

\* the other parameters of a submission with images are all valid
RestValid(op, a) ==
    /\ IF op = "reference_to_video"
       THEN a.prompt.stripped > 0 /\ a.prompt.len <= MaxPromptLen
       ELSE ~TooLong(a.prompt, MaxPromptLen)
    /\ ~TooLong(a.payload, MaxPayloadLen)
    /\ a.model \in ViduModel
    /\ ~OutsideWhitelist(WhitelistOf(op), a.model, a.duration)

\* C19: image_to_video takes an image list iff it has exactly 1 element,
\* reference_to_video iff it has 1 to 7, start_end_to_video iff it has
\* exactly 2; every other count, 0 included, raises ValueError (and no
\* request is sent), and a right count is never the reason of a rejection.
C19_ImageCounts ==
    call.op \in ImageOps =>
        LET ok == ImageCountOk(call.op, call.args.images)
        IN /\ ~ok => (call.exc = "ValueError" /\ call.nreq = 0)
           /\ (ok /\ RestValid(call.op, call.args)) => call.nreq = 1

\* eight reference images have been rejected
C19_Witness ==
    /\ call.op = "reference_to_video"
    /\ call.args.images = 8
    /\ RestValid(call.op, call.args)
    /\ call.exc = "ValueError"
    /\ call.nreq = 0

DurationOps == ImageOps \cup {"text_to_video"}

\* C20: in each of the four families, for every model of the enumeration,
\* an explicitly given duration that is not in the family's own whitelist
\* for that model ends the submission in ValueError, the error of the other
\* parameter violations, and no request is sent.
C20_OutsideWhitelistRaisesValueError ==
    (/\ call.op \in DurationOps
     /\ OutsideWhitelist(WhitelistOf(call.op), call.args.model, call.args.duration))
    => (call.exc = "ValueError" /\ call.nreq = 0)

\* the rules of one event of a timed-audio submission, against the
\* duration of the submission (10 when none is given)
EventOk(e, duration) ==
    /\ e.from < e.to
    /\ 0 <= e.from
    /\ e.to <= (IF duration = None THEN 10 ELSE duration[1])
    /\ e.prompt.len <= 1500

EventsOk(a) ==
    /\ a.duration # None => (2 <= a.duration[1] /\ a.duration[1] <= 10)
    /\ \A i \in 1 .. Len(a.timing_prompts) : EventOk(a.timing_prompts[i], a.duration)

\* C21 as stated: a timed-audio submission (its payload within the limit)
\* passes the validation iff its duration is in range and every event
\* satisfies the event rules.
C21_AcceptedIffEveryEventOk ==
    (call.op = "timing_to_audio" /\ ~TooLong(call.args.payload, MaxPayloadLen)) =>
        ((call.nreq = 1) <=> EventsOk(call.args))

\* C21 amended: a timed-audio submission passes the validation iff it has
\* at least one event, its duration is in range, every event satisfies the
\* event rules and its payload is within the limit; otherwise it ends in
\* ValueError and no request is sent.  Events may overlap.
C21_AcceptedIffNonEmptyAndEveryEventOk ==
    call.op = "timing_to_audio" =>
        LET ok == /\ Len(call.args.timing_prompts) >= 1
                  /\ EventsOk(call.args)
                  /\ ~TooLong(call.args.payload, MaxPayloadLen)
        IN /\ (call.nreq = 1) <=> ok
           /\ ~ok => (call.exc = "ValueError" /\ call.nreq = 0)

\* two overlapping events, the second ending at the duration, were accepted
C21_Witness ==
    /\ call.op = "timing_to_audio"
    /\ call.args.timing_prompts = <<Event(0, 3, 1), Event(2, 6, 1)>>
    /\ call.args.duration = Some(6)
    /\ call.nreq = 1

(***************************************************************************)
(* The resolver of ViduClient: get_creations, get_video_url,               *)
(* get_audio_url, get_cover_url, over a task view (the decoded response    *)
(* of a status query).                                                     *)
(***************************************************************************)
GetCreationsAnyState(task_info) ==
    IF task_info.creations = None THEN <<>> ELSE task_info.creations[1]

\* task_info.get('creations', []) when the state is success, else []
GetCreations(task_info) ==
    IF task_info.state = SUCCESS
    THEN IF task_info.creations = None THEN <<>> ELSE task_info.creations[1]
    ELSE <<>>

\* creations[0].get('url') when the list is not empty, else None
GetVideoUrl(task_info) ==
    LET creations == GetCreations(task_info)
    IN IF creations # <<>> THEN creations[1].url ELSE None

GetAudioUrl(task_info) ==
    LET creations == GetCreations(task_info)
    IN IF creations # <<>> THEN creations[1].url ELSE None

GetCoverUrl(task_info) ==
    LET creations == GetCreations(task_info)
    IN IF creations # <<>> THEN creations[1].cover_url ELSE None

\* the views the resolver and the downloader are tried with
Creation3 == Creation(Some("c3"), None, Some(UrlCover))
Creation4 == Creation(None, Some(UrlNoDots), None)
Creation5 == Creation(Some("c5"), Some(UrlDottedDir), None)
Creation6 == Creation(Some("c6"), None, None)
Creation7 == Creation(Some("c7"), Some(UrlVideo), None)
Creation8 == Creation(Some("c8"), Some(UrlNoDots), Some(UrlNoDots))
Creations == {Creation1, Creation2, Creation3, Creation4, Creation5,
              Creation6, Creation7, Creation8}

MaxCreations == 2
CreationLists == UNION { [1 .. n -> Creations] : n \in 0 .. MaxCreations }

TaskViews ==
    { TaskBody("t1", SUCCESS, "", cr) : cr \in Opt(CreationLists) }
    \cup { TaskBody("t1", st, "", cr) :
             st \in {CREATED, QUEUEING, PROCESSING, FAILED, UnknownState, ""},
             cr \in {None, Some(<<>>), Some(<<Creation1>>)} }

GetCreationsCall ==
    /\ CallerIdle
    /\ \E task_info \in TaskViews :
         call' = Outcome("get_creations", task_info, FALSE, GetCreations(task_info))
    /\ UNCHANGED <<srv, tasks, calls>>

GetVideoUrlCall ==
    /\ CallerIdle
    /\ \E task_info \in TaskViews :
         call' = Outcome("get_video_url", task_info, FALSE, GetVideoUrl(task_info))
    /\ UNCHANGED <<srv, tasks, calls>>

GetAudioUrlCall ==
    /\ CallerIdle
    /\ \E task_info \in TaskViews :
         call' = Outcome("get_audio_url", task_info, FALSE, GetAudioUrl(task_info))
    /\ UNCHANGED <<srv, tasks, calls>>

GetCoverUrlCall ==
    /\ CallerIdle
    /\ \E task_info \in TaskViews :
         call' = Outcome("get_cover_url", task_info, FALSE, GetCoverUrl(task_info))
    /\ UNCHANGED <<srv, tasks, calls>>

(***************************************************************************)
(* The downloader of ViduClient: download_file and download_creation.      *)
(***************************************************************************)
\* ViduClient.__init__: the headers of the session, sent with every request
\* made through it
SessionHeaders == {"Authorization", "Content-Type"}

\* self.session.get(url, stream=True)
DownloadRequest(url) == [method |-> "GET", url |-> url, headers |-> SessionHeaders]

\* the ways one download_file call can end: whether the GET was sent,
\* whether a file (complete or partial) is left at save_path, the exception.
\* makedirs can fail before the GET; the GET or raise_for_status can fail;
\* open can fail; a write or the stream can fail after the file was opened.
DownloadOk == [sent |-> TRUE, file |-> TRUE, exc |-> "none"]
DownloadFailures ==
    {[sent |-> FALSE, file |-> FALSE, exc |-> "IOError"],
     [sent |-> TRUE, file |-> FALSE, exc |-> "RequestException"],
     [sent |-> TRUE, file |-> FALSE, exc |-> "IOError"],
     [sent |-> TRUE, file |-> TRUE, exc |-> "RequestException"],
     [sent |-> TRUE, file |-> TRUE, exc |-> "IOError"]}

\* s.split(sep)[0] and s.split(sep)[-1] on the pieces of a URL
RECURSIVE BeforeFirst(_, _)
BeforeFirst(s, sep) ==
    IF s = <<>> \/ Head(s) = sep THEN <<>>
    ELSE <<Head(s)>> \o BeforeFirst(Tail(s), sep)

RECURSIVE AfterLast(_, _)
AfterLast(s, sep) ==
    IF \E i \in 1 .. Len(s) : s[i] = sep
    THEN AfterLast(Tail(s), sep) ELSE s

Contains(s, sep) == \E i \in 1 .. Len(s) : s[i] = sep

\* the extension download_creation derives from a URL
ExtensionOf(url, default) ==
    LET url_for_ext == IF Contains(url, "?") THEN BeforeFirst(url, "?") ELSE url
    IN IF Contains(url_for_ext, ".")
       THEN <<".">> \o AfterLast(url_for_ext, ".")
       ELSE default

DefaultMainExt == <<".", "mp4">>
DefaultCoverExt == <<".", "jpg">>

\* creation.get('id', f'creation_{i}')
CreationId(creation, i) ==
    IF creation.id # None THEN <<creation.id[1]>> ELSE <<"creation_", ToString(i)>>

\* filename_prefix, task_info.get('id', 'creation') when it is None (an id
\* of "" stands for a view without id)
FilenamePrefix(task_info, filename_prefix) ==
    IF filename_prefix # None THEN filename_prefix[1]
    ELSE IF task_info.id # "" THEN task_info.id ELSE "creation"

\* str(save_path / filename)
JoinPath(save_dir, filename) == <<save_dir, "/">> \o filename

\* the loop body with the cover fetched before the main file
DownloadsOfCoverFirst(creation, i, save_dir, prefix) ==
    (IF creation.cover_url # None /\ creation.cover_url[1] # <<>>
     THEN << [key |-> <<"cover", i>>, url |-> creation.cover_url[1],
              path |-> JoinPath(save_dir, <<prefix, "_">> \o CreationId(creation, i)
                                  \o <<"_cover">>
                                  \o ExtensionOf(creation.cover_url[1], DefaultCoverExt))] >>
     ELSE <<>>)
    \o
    (IF creation.url # None /\ creation.url[1] # <<>>
     THEN << [key |-> <<"main", i>>, url |-> creation.url[1],
              path |-> JoinPath(save_dir, <<prefix, "_">> \o CreationId(creation, i)
                                  \o ExtensionOf(creation.url[1], DefaultMainExt))] >>
     ELSE <<>>)

\* the downloads of entry i (counted from 0) of creations, in the order the
\* loop body makes them: the main file when url is truthy, then the cover
\* when cover_url is truthy
DownloadsOf(creation, i, save_dir, prefix) ==
    (IF creation.url # None /\ creation.url[1] # <<>>
     THEN << [key |-> <<"main", i>>, url |-> creation.url[1],
              path |-> JoinPath(save_dir, <<prefix, "_">> \o CreationId(creation, i)
                                  \o ExtensionOf(creation.url[1], DefaultMainExt))] >>
     ELSE <<>>)
    \o
    (IF creation.cover_url # None /\ creation.cover_url[1] # <<>>
     THEN << [key |-> <<"cover", i>>, url |-> creation.cover_url[1],
              path |-> JoinPath(save_dir, <<prefix, "_">> \o CreationId(creation, i)
                                  \o <<"_cover">>
                                  \o ExtensionOf(creation.cover_url[1], DefaultCoverExt))] >>
     ELSE <<>>)

RECURSIVE DownloadsFrom(_, _, _, _)
DownloadsFrom(creations, i, save_dir, prefix) ==
    IF i >= Len(creations) THEN <<>>
    ELSE DownloadsOf(creations[i + 1], i, save_dir, prefix)
         \o DownloadsFrom(creations, i + 1, save_dir, prefix)

\* the outcome of download_creation: the exception, the returned mapping
\* (its entries in insertion order), the GETs sent and the files left on
\* disk, both in the order they were made, and which download failed (0
\* when none did)
DownloadResult(exc, result, gets, files, failed) ==
    [exc |-> exc, result |-> result, gets |-> gets, files |-> files,
     failed |-> failed]

\* download_creation when the first k downloads succeed and the next one,
\* if there is one, ends as failure says
DownloadRun(downloads, k, failure) ==
    LET done == SubSeq(downloads, 1, k)
        gets == [j \in 1 .. k |-> DownloadRequest(done[j].url)]
        files == [j \in 1 .. k |-> done[j].path]
    IN IF k = Len(downloads)
       THEN DownloadResult("none",
                           Some([j \in 1 .. k |-> <<done[j].key, done[j].path>>]),
                           gets, files, 0)
       ELSE DownloadResult(failure.exc, None,
                           IF failure.sent
                           THEN Append(gets, DownloadRequest(downloads[k + 1].url))
                           ELSE gets,
                           IF failure.file
                           THEN Append(files, downloads[k + 1].path)
                           ELSE files,
                           k + 1)

DownloadCreationOfAnyState(task_info, save_dir, filename_prefix) ==
    LET creations == IF task_info.creations = None THEN <<>> ELSE task_info.creations[1]
        downloads == DownloadsFrom(creations, 0, save_dir,
                                   FilenamePrefix(task_info, filename_prefix))
    IN IF creations = <<>>
       THEN {DownloadResult("ValueError", None, <<>>, <<>>, 0)}
       ELSE {DownloadRun(downloads, Len(downloads), DownloadOk)}

\* ViduClient.download_creation: the outcomes it can have
DownloadCreation(task_info, save_dir, filename_prefix) ==
    LET creations == GetCreations(task_info)
        downloads == DownloadsFrom(creations, 0, save_dir,
                                   FilenamePrefix(task_info, filename_prefix))
    IN IF creations = <<>>
       THEN {DownloadResult("ValueError", None, <<>>, <<>>, 0)}
       ELSE {DownloadResult("OSError", None, <<>>, <<>>, 0)}
            \cup {DownloadRun(downloads, Len(downloads), DownloadOk)}
            \cup {DownloadRun(downloads, k, f) :
                     k \in 0 .. Len(downloads) - 1, f \in DownloadFailures}

FilenamePrefixes == {None, Some("out")}

DownloadCreationCall ==
    /\ CallerIdle
    /\ \E task_info \in TaskViews, filename_prefix \in FilenamePrefixes :
       \E r \in DownloadCreation(task_info, "dir", filename_prefix) :
         call' = [op |-> "download_creation",
                  args |-> [task_info |-> task_info, save_dir |-> "dir",
                            filename_prefix |-> filename_prefix],
                  exc |-> r.exc, code |-> "", reqs |-> {}, nreq |-> 0,
                  result |-> r.result, gets |-> r.gets, files |-> r.files,
                  failed |-> r.failed]
    /\ UNCHANGED <<srv, tasks, calls>>

\* a single-threaded caller, one call at a time
NextResolver ==
    \/ DropResult
    \/ DownloadCreationCall
    \/ GetCreationsCall
    \/ GetVideoUrlCall
    \/ GetAudioUrlCall
    \/ GetCoverUrlCall

SpecResolver == Init /\ [][NextResolver]_vars

(***************************************************************************)
(* ViduTask: the read accessors and download_creation of the handle.       *)
(***************************************************************************)
NeedsRefreshUnlessTerminal(task_info) ==
    task_info = None \/ ~ IsTerminal(task_info[1].state)

\* if self._task_info is None: self.refresh()
NeedsRefresh(task_info) == task_info = None

\* self._task_info.get('state') if self._task_info else None (a state of ""
\* stands for a view without state)
StatusOf(task_info) ==
    IF task_info = None \/ task_info[1].state = "" THEN None
    ELSE Some(task_info[1].state)

IsCompleted(task_info) == StatusOf(task_info) \in {Some(SUCCESS), Some(FAILED)}
IsSuccess(task_info) == StatusOf(task_info) = Some(SUCCESS)

Accessors == {"status", "is_completed", "is_success", "video_url", "audio_url",
              "cover_url", "creations"}

\* what the accessor returns from the view the handle holds once the status
\* has been looked up
AccessorValue(name, task_info) ==
    CASE name = "status" -> StatusOf(task_info)
      [] name = "is_completed" -> IsCompleted(task_info)
      [] name = "is_success" -> IsSuccess(task_info)
      [] name = "video_url" ->
            IF IsSuccess(task_info) THEN GetVideoUrl(task_info[1]) ELSE None
      [] name = "audio_url" ->
            IF IsSuccess(task_info) THEN GetAudioUrl(task_info[1]) ELSE None
      [] name = "cover_url" ->
            IF IsSuccess(task_info) THEN GetCoverUrl(task_info[1]) ELSE None
      [] name = "creations" ->
            IF IsSuccess(task_info) THEN GetCreations(task_info[1]) ELSE <<>>

\* the record of one call on the handle: the view held before it (args) and
\* after it (cached), what it raised or returned, the requests it sent
TaskOutcome(op, before, after, exc, code, reqs, result) ==
    [op |-> op, args |-> before, cached |-> after, exc |-> exc, code |-> code,
     reqs |-> reqs, nreq |-> Cardinality(reqs), result |-> result,
     gets |-> <<>>, files |-> <<>>, failed |-> 0]

\* the status lookup every accessor starts with: the views the handle can
\* hold after it, with the exception raised and the request sent
StatusLookups(h, Fs) ==
    IF NeedsRefresh(tasks[h].task_info)
    THEN UNION { { [exc |-> exc, code |-> RaisedCode(wire, exc),
                    view |-> IF exc = "none"
                             THEN RefreshView(tasks[h].task_info, wire.body)
                             ELSE tasks[h].task_info,
                    reqs |-> {QueryRequest(tasks[h].task_id)}] :
                   exc \in MakeRequestRaises(wire) } :
                 wire \in StatusWires(tasks[h].task_id, Fs) }
    ELSE { [exc |-> "none", code |-> "", view |-> tasks[h].task_info, reqs |-> {}] }

Accessor(h, name, Fs) ==
    /\ \E l \in StatusLookups(h, Fs) :
          /\ tasks' = StoreInfo(tasks, h, l.view)
          /\ call' = TaskOutcome(name, tasks[h].task_info, l.view, l.exc, l.code, l.reqs,
                                 IF l.exc = "none" THEN AccessorValue(name, l.view)
                                 ELSE None)
    /\ UNCHANGED <<srv, calls>>

\* ViduTask.download_creation: is_success first, then the client's
\* download_creation on the view held
TaskDownloadCreation(h, Fs) ==
    /\ \E l \in StatusLookups(h, Fs), filename_prefix \in FilenamePrefixes :
          /\ tasks' = StoreInfo(tasks, h, l.view)
          /\ IF l.exc # "none"
             THEN call' = TaskOutcome("download_creation", tasks[h].task_info, l.view,
                                      l.exc, l.code, l.reqs, None)
             ELSE IF ~ IsSuccess(l.view)
             THEN call' = TaskOutcome("download_creation", tasks[h].task_info, l.view,
                                      "ValueError", "", l.reqs, None)
             ELSE \E r \in DownloadCreation(l.view[1], "dir", filename_prefix) :
                    call' = [TaskOutcome("download_creation", tasks[h].task_info, l.view,
                                         r.exc, "", l.reqs, r.result)
                             EXCEPT !.gets = r.gets, !.files = r.files,
                                    !.failed = r.failed]
    /\ UNCHANGED <<srv, calls>>

TaskFailures == {ConnFail, Json(ErrorBody("404001"))}

\* one call site reads handle 1 and refreshes it; the service advances
NextTask ==
    \/ \E name \in Accessors : Accessor(1, name, TaskFailures)
    \/ TaskDownloadCreation(1, TaskFailures)
    \/ Refresh(1, TaskFailures)
    \/ ServerAdvance("t1")

SpecTask == Init /\ [][NextTask]_vars

\* the artifacts of a view: its creations list when its state is success
\* and the list is there, nothing otherwise
Artifacts(view) ==
    IF view.state = "success" /\ view.creations # None
    THEN view.creations[1] ELSE <<>>

\* C22: get_creations returns the empty list for every view whose state is
\* not success and the view's creations list when it is, and raises
\* nothing; get_video_url and get_cover_url return the url / cover_url of
\* the first entry of that list, None when the list is empty or the field
\* is absent.
C22_ArtifactsOnlyOfSuccess ==
    /\ call.op \in {"get_creations", "get_video_url", "get_audio_url", "get_cover_url"}
          => call.exc = "none"
    /\ call.op = "get_creations" =>
          /\ call.args.state # "success" => call.result = <<>>
          /\ call.result = Artifacts(call.args)
    /\ call.op \in {"get_video_url", "get_audio_url"} =>
          call.result = IF Len(Artifacts(call.args)) = 0 THEN None
                        ELSE Artifacts(call.args)[1].url
    /\ call.op = "get_cover_url" =>
          call.result = IF Len(Artifacts(call.args)) = 0 THEN None
                        ELSE Artifacts(call.args)[1].cover_url

\* the artifacts of a view that is not success, though it lists creations,
\* were asked for
C22_Witness ==
    /\ call.op = "get_creations"
    /\ call.args.state = "processing"
    /\ call.args.creations = Some(<<Creation1>>)
    /\ call.result = <<>>

\* C23: download_creation on a view whose state is not success raises a
\* local error (ValueError), sends no download request and writes no file.
C23_NoDownloadUnlessSuccess ==
    (call.op = "download_creation" /\ call.args.task_info.state # "success") =>
        /\ call.exc = "ValueError"
        /\ call.result = None
        /\ call.gets = <<>>
        /\ call.files = <<>>
        /\ call.nreq = 0

\* the download of a failed task that lists a creation was refused
C23_Witness ==
    /\ call.op = "download_creation"
    /\ call.args.task_info.state = "failed"
    /\ call.args.task_info.creations = Some(<<Creation1>>)
    /\ call.exc = "ValueError"

\* The file name of a URL: the last segment of its path, the query and the
\* scheme and host left out; and the extension that file name has.
FileNameOf(url) ==
    LET noQuery == IF Contains(url, "?") THEN BeforeFirst(url, "?") ELSE url
        afterScheme == SubSeq(noQuery, 4, Len(noQuery))
    IN IF Contains(afterScheme, "/") THEN AfterLast(afterScheme, "/") ELSE <<>>

PathExtension(url, fallback) ==
    IF Contains(FileNameOf(url), ".")
    THEN <<".">> \o AfterLast(FileNameOf(url), ".")
    ELSE fallback

\* the artifact and the URL an entry of the returned mapping stands for
EntryCreation(entry) == Artifacts(call.args.task_info)[entry[1][2] + 1]
EntryUrl(entry) ==
    IF entry[1][1] = "main" THEN EntryCreation(entry).url[1]
    ELSE EntryCreation(entry).cover_url[1]
EntryFallback(entry) == IF entry[1][1] = "main" THEN <<".", "mp4">> ELSE <<".", "jpg">>

EndsWith(s, t) ==
    /\ Len(t) <= Len(s)
    /\ SubSeq(s, Len(s) - Len(t) + 1, Len(s)) = t

\* C24: the extension of every downloaded file is the extension of the
\* URL's path (query stripped), and the fallback (.mp4 for the main file,
\* .jpg for the cover) when the path has none, whatever dots the host has.
C24_ExtensionFromPathOnly ==
    (call.op = "download_creation" /\ call.exc = "none") =>
        \A j \in 1 .. Len(call.result[1]) :
            LET entry == call.result[1][j]
                ext == PathExtension(EntryUrl(entry), EntryFallback(entry))
                stem == SubSeq(entry[2], 1, Len(entry[2]) - Len(ext))
            IN /\ EndsWith(entry[2], ext)
               /\ ~ Contains(SubSeq(stem, 3, Len(stem)), ".")
               /\ ~ Contains(SubSeq(stem, 3, Len(stem)), "/")

\* C25: a success view with one artifact that has an id and a url, saved
\* with a given prefix, leaves exactly the file {prefix}_{id}{ext}, and the
\* file {prefix}_{id}_cover{ext} when the artifact has a cover as well.
C25_OneArtifactRoundTrip ==
    (/\ call.op = "download_creation"
     /\ call.exc = "none"
     /\ call.args.filename_prefix # None
     /\ Len(Artifacts(call.args.task_info)) = 1
     /\ Artifacts(call.args.task_info)[1].id # None
     /\ Artifacts(call.args.task_info)[1].url # None) =>
        LET c == Artifacts(call.args.task_info)[1]
            base == <<call.args.save_dir, "/", call.args.filename_prefix[1], "_", c.id[1]>>
            main == base \o PathExtension(c.url[1], <<".", "mp4">>)
            cover == base \o <<"_cover">> \o PathExtension(c.cover_url[1], <<".", "jpg">>)
        IN {call.files[j] : j \in 1 .. Len(call.files)}
             = IF c.cover_url = None THEN {main} ELSE {main, cover}

\* C28: no request that downloads an artifact carries the credential
\* header of the API.
C28_DownloadsCarryNoCredential ==
    call.op = "download_creation" =>
        \A j \in 1 .. Len(call.gets) : "Authorization" \notin call.gets[j].headers

\* The downloads a list of artifacts asks for, in the order of the claim:
\* artifact by artifact, the main file before the cover.
RECURSIVE Wanted(_, _)
Wanted(creations, i) ==
    IF i >= Len(creations) THEN <<>>
    ELSE (IF creations[i + 1].url # None
          THEN << [key |-> <<"main", i>>, url |-> creations[i + 1].url[1]] >> ELSE <<>>)
         \o (IF creations[i + 1].cover_url # None
             THEN << [key |-> <<"cover", i>>, url |-> creations[i + 1].cover_url[1]] >>
             ELSE <<>>)
         \o Wanted(creations, i + 1)

\* C30: the GETs of download_creation are a prefix of the wanted downloads
\* in list order; a failing download ends the call with its error and
\* without mapping, nothing is fetched after it and every file written
\* before it is still there; on success the mapping has exactly the
\* entries main_i and cover_i of the wanted downloads.
C30_OrderedAbortOnFirstFailure ==
    (call.op = "download_creation" /\ Artifacts(call.args.task_info) # <<>>) =>
        LET wanted == Wanted(Artifacts(call.args.task_info), 0)
            n == Len(call.gets)
        IN /\ n <= Len(wanted)
           /\ \A j \in 1 .. n : call.gets[j].url = wanted[j].url
           /\ call.exc = "none" =>
                 /\ n = Len(wanted)
                 /\ call.result # None
                 /\ Len(call.result[1]) = Len(wanted)
                 /\ \A j \in 1 .. n : call.result[1][j][1] = wanted[j].key
                 /\ \A j \in 1 .. n :
                       \E f \in 1 .. Len(call.files) : call.files[f] = call.result[1][j][2]
           /\ call.exc # "none" =>
                 /\ call.result = None
                 /\ n <= call.failed
                 /\ Len(call.files) >= call.failed - 1

\* the cover of the first artifact failed after its main file was written:
\* the second artifact was not asked for and the main file is still there
C30_Witness ==
    /\ call.op = "download_creation"
    /\ call.args.task_info.creations = Some(<<Creation1, Creation7>>)
    /\ call.exc = "RequestException"
    /\ call.failed = 2
    /\ Len(call.gets) = 2
    /\ Len(call.files) = 1
    /\ call.result = None

\* C29: when the duration is left out of a video submission, every request
\* sent carries a duration of the family's whitelist for the model, and a
\* model the family has no whitelist for is rejected without request.
C29_DefaultDurationInWhitelist ==
    (/\ call.op \in DurationOps
     /\ call.args.duration = None
     /\ call.args.model \in ViduModel) =>
        LET limits == WhitelistOf(call.op)
        IN /\ \A r \in call.reqs :
                /\ r.duration # None
                /\ call.args.model \in DOMAIN limits
                /\ r.duration[1] \in limits[call.args.model]
           /\ call.args.model \notin DOMAIN limits =>
                (call.exc # "none" /\ call.nreq = 0)

\* C26: the wait tests the timeout before every poll.  No poll is made once
\* the elapsed time exceeds the timeout; every poll the wait goes on from
\* (into a sleep, the next test, or the TimeoutError) answered with a view
\* that is neither success nor failed; a wait whose timeout is exceeded at
\* entry (timeout < 0) never polls and ends in TimeoutError.
C26_TimeoutTestPrecedesPoll ==
    LET c == calls[1]
    IN c.op = "wait" =>
        /\ c.pc = "poll" => c.elapsed <= c.timeout
        /\ (c.polls > 0 /\ (c.pc \in {"sleep", "check"} \/ c.exc = "TimeoutError")) =>
              (c.resp # None /\ c.resp[1].state \notin {"success", "failed"})
        /\ c.exc = "TimeoutError" =>
              (c.pc = "done" /\ c.elapsed > c.timeout /\ c.polls = c.sleeps)
        /\ c.timeout < 0 =>
              (c.polls = 0 /\ c.nreq = 0 /\ (c.pc = "done" => c.exc = "TimeoutError"))

\* the task became success on the server while the wait slept for the
\* last time: the wait polled once, saw it in flight, and raised
\* TimeoutError without asking again
C26_Witness ==
    /\ calls[1].op = "wait"
    /\ calls[1].exc = "TimeoutError"
    /\ calls[1].polls = 1
    /\ calls[1].sleeps = 1
    /\ calls[1].resp # None
    /\ calls[1].resp[1].state = "processing"
    /\ srv["t1"].state = "success"

\* a wait with timeout -1 raised without a poll
C26_WitnessNegativeTimeout ==
    /\ calls[1].op = "wait"
    /\ calls[1].timeout = -1
    /\ calls[1].exc = "TimeoutError"
    /\ calls[1].polls = 0

\* C27: a read accessor of the handle sends a status query only when the
\* handle holds no view, and then exactly one; with a view held it sends
\* nothing, leaves the view as it is and answers from it, so is_completed
\* stays false on a held view that is not terminal whatever the state of
\* the task on the server.
C27_AccessorsPollOnlyWithoutView ==
    call.op \in Accessors =>
        /\ call.args # None =>
              /\ call.nreq = 0
              /\ call.reqs = {}
              /\ call.exc = "none"
              /\ call.cached = call.args
        /\ call.args = None =>
              /\ call.nreq = 1
              /\ call.reqs = {QueryRequest("t1")}
              /\ call.exc = "none" <=> call.cached # None
        /\ (call.op = "is_completed" /\ call.args # None
              /\ call.args[1].state \notin {"success", "failed"}) =>
              call.result = FALSE

\* is_completed was read from a handle holding a view in state processing
\* while the task is success on the server: false, and no request
C27_Witness ==
    /\ call.op = "is_completed"
    /\ call.args # None
    /\ call.args[1].state = "processing"
    /\ srv["t1"].state = "success"
    /\ call.result = FALSE
    /\ call.nreq = 0
    /\ tasks[1].task_info = call.args

====
